---- MODULE Spec2Model ----
(***************************************************************************)
(* Model of solve_schedule (src/solver/schedule_optimizer.py and its port  *)
(* src/api/optimize_schedule.py): the translation of a monthly nurse       *)
(* roster into a CP-SAT model, the backend's answer, and the decoding of   *)
(* the answer into schedule records.                                       *)
(*                                                                         *)
(* The CpModel is kept as data: `model' is the set of constraints added by *)
(* model.Add(...), `obj_terms' the terms handed to model.Maximize.  The    *)
(* backend (OR-tools, not part of the repository) is modelled by its       *)
(* contract: it returns an assignment of the decision cube satisfying      *)
(* every constraint of `model' (OPTIMAL: one maximizing the objective),    *)
(* INFEASIBLE when there is none, or UNKNOWN when the time budget ends.    *)
(*                                                                         *)
(* Strings that the code takes apart or builds (dates) are sequences of    *)
(* one-character strings.  Shift-type codes of a catalog and nurse ids of  *)
(* a roster are pairwise distinct.                                         *)
(***************************************************************************)
EXTENDS Integers, Sequences, FiniteSets, TLC

\* variant: the entry point whose solve_schedule runs, "cli" for
\* src/solver/schedule_optimizer.py, "api" for src/api/optimize_schedule.py
VARIABLES data, variant, pc, model, obj_terms, status, values, result

vars == <<data, variant, pc, model, obj_terms, status, values, result>>

-----------------------------------------------------------------------------
(* Text: str.split('-'), int(), and the f-string of the decoder.           *)

Digit == <<"0", "1", "2", "3", "4", "5", "6", "7", "8", "9">>

IsDigit(c) == \E i \in 1..10 : Digit[i] = c

DigitVal(c) == (CHOOSE i \in 1..10 : Digit[i] = c) - 1

RECURSIVE SplitAcc(_, _, _)
SplitAcc(s, i, cur) ==
    IF i > Len(s) THEN <<cur>>
    ELSE IF s[i] = "-" THEN <<cur>> \o SplitAcc(s, i + 1, <<>>)
    ELSE SplitAcc(s, i + 1, Append(cur, s[i]))

\* s.split('-')
Split(s) == SplitAcc(s, 1, <<>>)

\* int(s) reads decimal digits, with single underscores between digits, after
\* an optional "+", blanks around the whole being ignored
RECURSIVE Strip(_)
Strip(s) ==
    IF Len(s) > 0 /\ s[1] = " " THEN Strip(Tail(s))
    ELSE IF Len(s) > 0 /\ s[Len(s)] = " " THEN Strip(SubSeq(s, 1, Len(s) - 1))
    ELSE s

Unsigned(s) == IF Len(s) > 0 /\ s[1] = "+" THEN Tail(s) ELSE s

DigitsOk(s) ==
    /\ Len(s) > 0
    /\ \A i \in 1..Len(s) :
           \/ IsDigit(s[i])
           \/ s[i] = "_" /\ i > 1 /\ i < Len(s) /\ IsDigit(s[i - 1]) /\ IsDigit(s[i + 1])

RECURSIVE DigitsVal(_)
DigitsVal(s) ==
    IF Len(s) = 0 THEN 0
    ELSE IF s[Len(s)] = "_" THEN DigitsVal(SubSeq(s, 1, Len(s) - 1))
    ELSE 10 * DigitsVal(SubSeq(s, 1, Len(s) - 1)) + DigitVal(s[Len(s)])

IntOk(s) == DigitsOk(Unsigned(Strip(s)))

IntVal(s) == DigitsVal(Unsigned(Strip(s)))

RECURSIVE Str(_)
Str(n) == IF n < 10 THEN <<Digit[n + 1]>>
          ELSE Str(n \div 10) \o <<Digit[(n % 10) + 1]>>

\* {n:02d}
Pad2(n) == IF n < 10 THEN <<"0">> \o Str(n) ELSE Str(n)

\* f"{year}-{month:02d}-{d+1:02d}"
date_str(y, m, d) == Str(y) \o <<"-">> \o Pad2(m) \o <<"-">> \o Pad2(d + 1)

-----------------------------------------------------------------------------
(* 1. Parsed input.                                                        *)

Get(cfg, key, default) == IF key \in DOMAIN cfg THEN cfg[key] ELSE default

nurses == data.nurses
shift_types == data.shiftTypes
year == data.year
month == data.month + 1
ward_config == Get(data, "wardConfig", <<>>)
constraints_config == Get(data, "constraints", <<>>)
pre_assigned == Get(data, "preAssigned", <<>>)
nurse_forbidden_shifts == Get(data, "nurseForbiddenShifts", <<>>)

\* the top-level keys both entry points take as given
RequiredKeys == <<"nurses", "shiftTypes", "year", "month">>

\* data[key] raises KeyError at the first key that is absent; "" when none is
MissingKey ==
    LET absent == {i \in 1..Len(RequiredKeys) : RequiredKeys[i] \notin DOMAIN data}
    IN  IF absent = {} THEN ""
        ELSE RequiredKeys[CHOOSE i \in absent : \A j \in absent : i <= j]

\* str(KeyError(key))
KeyErrorText(key) == "'" \o key \o "'"

\* str(e) of None + 1
TypeErrorText == "unsupported operand type(s) for +: 'NoneType' and 'int'"

MissingDataText == "Missing required data (nurses, shiftTypes, year, month)"

\* `not data.get(key, [])'
Empty(key) == Get(data, key, <<>>) = <<>>

IsLeap(y) == (y % 4 = 0 /\ y % 100 # 0) \/ y % 400 = 0

\* calendar.monthrange(year, month)[1]
monthrange(y, m) == IF m = 2 THEN (IF IsLeap(y) THEN 29 ELSE 28)
                    ELSE IF m \in {4, 6, 9, 11} THEN 30 ELSE 31

num_days == monthrange(year, month)
num_nurses == Len(nurses)
all_days == 0..(num_days - 1)
all_nurses == 0..(num_nurses - 1)

WorkingCodes == {"D", "E", "N"}

IsWorking(s) == s.code \in WorkingCodes

working_shifts == SelectSeq(shift_types, IsWorking)
num_working_shifts == Len(working_shifts)
all_shifts == 0..(num_working_shifts - 1)

\* {s['code']: i for i, s in enumerate(working_shifts)}: the last index wins
shift_code_map ==
    [c \in {working_shifts[i].code : i \in 1..num_working_shifts} |->
        CHOOSE i \in all_shifts :
            /\ working_shifts[i + 1].code = c
            /\ \A j \in all_shifts : working_shifts[j + 1].code = c => j <= i]

rev_shift_map == [i \in all_shifts |-> working_shifts[i + 1]]

idx_d == Get(shift_code_map, "D", -1)
idx_e == Get(shift_code_map, "E", -1)
idx_n == Get(shift_code_map, "N", -1)

\* {n['id']: i for i, n in enumerate(nurses)}
nurse_id_map ==
    [id \in {nurses[i].id : i \in 1..num_nurses} |->
        CHOOSE i \in all_nurses :
            /\ nurses[i + 1].id = id
            /\ \A j \in all_nurses : nurses[j + 1].id = id => j <= i]

\* the decision cube shifts[(n, d, s)]
shifts == {<<n, d, s>> : n \in all_nurses, d \in all_days, s \in all_shifts}

-----------------------------------------------------------------------------
(* 2. Constraints: model.Add(sum(cells) op rhs).                           *)

Lin(cells, op, rhs) == [cells |-> cells, op |-> op, rhs |-> rhs]

RangeOf(seq) == {seq[i] : i \in 1..Len(seq)}

\* (0) forbidden shifts
ForbiddenFirstDayOnly ==
    {Lin({<<nurse_id_map[id], 0, shift_code_map[code]>>}, "==", 0) :
        <<id, code>> \in
            {t \in (DOMAIN nurse_forbidden_shifts) \X (DOMAIN shift_code_map) :
                /\ t[1] \in DOMAIN nurse_id_map
                /\ t[2] \in RangeOf(nurse_forbidden_shifts[t[1]])}}

ForbiddenConstraints ==
    {Lin({<<nurse_id_map[id], d, shift_code_map[code]>>}, "==", 0) :
        <<id, code, d>> \in
            {t \in (DOMAIN nurse_forbidden_shifts) \X (DOMAIN shift_code_map) \X all_days :
                /\ t[1] \in DOMAIN nurse_id_map
                /\ t[2] \in RangeOf(nurse_forbidden_shifts[t[1]])}}

\* (1) at most one shift per nurse and day
AtMostOneButLastDay ==
    {Lin({<<n, d, s>> : s \in all_shifts}, "<=", 1) :
        n \in all_nurses, d \in 0..(num_days - 2)}

AtMostOneConstraints ==
    {Lin({<<n, d, s>> : s \in all_shifts}, "<=", 1) : n \in all_nurses, d \in all_days}

\* (2) pre-assigned shifts and leave: one entry p of preAssigned
PinDayNotShifted(p) ==
    IF p.nurseId \notin DOMAIN nurse_id_map THEN {}
    ELSE LET n_idx == nurse_id_map[p.nurseId]
             parts == Split(p.date)
         IN  IF Len(parts) < 3 \/ ~IntOk(parts[3]) THEN {}
             ELSE LET p_date == IntVal(parts[3])
                  IN  IF p_date < 0 \/ p_date >= num_days THEN {}
                      ELSE IF p.shiftCode \in DOMAIN shift_code_map
                      THEN {Lin({<<n_idx, p_date, shift_code_map[p.shiftCode]>>}, "==", 1)}
                      ELSE {Lin({<<n_idx, p_date, s>> : s \in all_shifts}, "==", 0)}

PinClampedToMonth(p) ==
    IF p.nurseId \notin DOMAIN nurse_id_map THEN {}
    ELSE LET n_idx == nurse_id_map[p.nurseId]
             parts == Split(p.date)
         IN  IF Len(parts) < 3 \/ ~IntOk(parts[3]) THEN {}
             ELSE LET day == IntVal(parts[3]) - 1
                      p_date == IF day >= num_days THEN num_days - 1 ELSE day
                  IN  IF p_date < 0 THEN {}
                      ELSE IF p.shiftCode \in DOMAIN shift_code_map
                      THEN {Lin({<<n_idx, p_date, shift_code_map[p.shiftCode]>>}, "==", 1)}
                      ELSE {Lin({<<n_idx, p_date, s>> : s \in all_shifts}, "==", 0)}

PreAssignConstraint(p) ==
    IF p.nurseId \notin DOMAIN nurse_id_map THEN {}
    ELSE LET n_idx == nurse_id_map[p.nurseId]
             parts == Split(p.date)
         IN  IF Len(parts) < 3 \/ ~IntOk(parts[3]) THEN {}   \* IndexError, ValueError
             ELSE LET p_date == IntVal(parts[3]) - 1
                  IN  IF p_date < 0 \/ p_date >= num_days THEN {}
                      ELSE IF p.shiftCode \in DOMAIN shift_code_map
                      THEN {Lin({<<n_idx, p_date, shift_code_map[p.shiftCode]>>}, "==", 1)}
                      ELSE {Lin({<<n_idx, p_date, s>> : s \in all_shifts}, "==", 0)}

PreAssignedConstraints ==
    UNION {PreAssignConstraint(pre_assigned[i]) : i \in 1..Len(pre_assigned)}

\* (3) 11-hour rest between shifts: E -> D, N -> E, N -> D on consecutive days
Pair(n, d, s1, s2) == Lin({<<n, d, s1>>, <<n, d + 1, s2>>}, "<=", 1)

IntervalWithoutNightDay ==
    IF Get(constraints_config, "minShiftInterval11h", TRUE)
    THEN {Pair(n, d, idx_e, idx_d) :
              n \in {x \in all_nurses : idx_e # -1 /\ idx_d # -1}, d \in 0..(num_days - 2)}
         \cup {Pair(n, d, idx_n, idx_e) :
              n \in {x \in all_nurses : idx_n # -1 /\ idx_e # -1}, d \in 0..(num_days - 2)}
    ELSE {}

IntervalSkipsLastPair ==
    IF Get(constraints_config, "minShiftInterval11h", TRUE)
    THEN {Pair(n, d, idx_e, idx_d) :
              n \in {x \in all_nurses : idx_e # -1 /\ idx_d # -1}, d \in 0..(num_days - 3)}
         \cup {Pair(n, d, idx_n, idx_e) :
              n \in {x \in all_nurses : idx_n # -1 /\ idx_e # -1}, d \in 0..(num_days - 3)}
         \cup {Pair(n, d, idx_n, idx_d) :
              n \in {x \in all_nurses : idx_n # -1 /\ idx_d # -1}, d \in 0..(num_days - 3)}
    ELSE {}

IntervalConstraints ==
    IF Get(constraints_config, "minShiftInterval11h", TRUE)
    THEN {Pair(n, d, idx_e, idx_d) :
              n \in {x \in all_nurses : idx_e # -1 /\ idx_d # -1}, d \in 0..(num_days - 2)}
         \cup {Pair(n, d, idx_n, idx_e) :
              n \in {x \in all_nurses : idx_n # -1 /\ idx_e # -1}, d \in 0..(num_days - 2)}
         \cup {Pair(n, d, idx_n, idx_d) :
              n \in {x \in all_nurses : idx_n # -1 /\ idx_d # -1}, d \in 0..(num_days - 2)}
    ELSE {}

\* (4) daily demand: per day and per D/E/N of the catalog, min <= headcount <= max
Staff(d, idx) == {<<n, d, idx>> : n \in all_nurses}

DemandMinDefaultOne(idx, minKey, maxKey) ==
    IF idx = -1 THEN {}
    ELSE {Lin(Staff(d, idx), ">=", Get(ward_config, minKey, 1)) : d \in all_days}
         \cup {Lin(Staff(d, idx), "<=", Get(ward_config, maxKey, num_nurses)) : d \in all_days}

DemandOf(idx, minKey, maxKey) ==
    IF idx = -1 THEN {}
    ELSE {Lin(Staff(d, idx), ">=", Get(ward_config, minKey, 0)) : d \in all_days}
         \cup {Lin(Staff(d, idx), "<=", Get(ward_config, maxKey, num_nurses)) : d \in all_days}

DemandConstraints ==
    DemandOf(idx_d, "minNursesDay", "maxNursesDay")
    \cup DemandOf(idx_e, "minNursesEvening", "maxNursesEvening")
    \cup DemandOf(idx_n, "minNursesNight", "maxNursesNight")

\* (5) senior (N2+) cover of every shift of every day
min_senior == Get(constraints_config, "minSeniorCount", 1)
senior_levels == {"N2", "N3", "N4"}
senior_indices == {i \in all_nurses : nurses[i + 1].level \in senior_levels}

SeniorOnAnyShift ==
    IF senior_indices # {}
    THEN {Lin({<<n, d, s>> : n \in senior_indices, s \in all_shifts}, ">=", min_senior) :
              d \in all_days}
    ELSE {}

SeniorConstraints ==
    IF senior_indices # {}
    THEN {Lin({<<n, d, s>> : n \in senior_indices}, ">=", min_senior) :
              d \in all_days, s \in all_shifts}
    ELSE {}

\* (6) monthly workload of every nurse
min_work_days == Get(ward_config, "minWorkingDays", 15)
max_work_days == Get(ward_config, "maxWorkingDays", 23)

total_worked(n) == {<<n, d, s>> : d \in all_days, s \in all_shifts}

WorkloadMaxOnly ==
    {Lin(total_worked(n), "<=", max_work_days) : n \in all_nurses}

WorkloadConstraints ==
    {Lin(total_worked(n), ">=", min_work_days) : n \in all_nurses}
    \cup {Lin(total_worked(n), "<=", max_work_days) : n \in all_nurses}

\* (B) fairness: max_shifts and min_shifts are IntVar(0, num_days) tied to the
\* per-nurse totals by AddMaxEquality / AddMinEquality; their difference is capped
FairnessCapOfSix == {Lin(shifts, "max_shifts - min_shifts <=", 6)}

FairnessConstraints == {Lin(shifts, "max_shifts - min_shifts <=", 5)}

\* (D) at most 6 consecutive working days: every 7-day window inside the month
max_consecutive_days == 6

window_size == max_consecutive_days + 1

window_shifts(n, d) == {<<n, d + k, s>> : k \in 0..(window_size - 1), s \in all_shifts}

ConsecutiveAllowsSeven ==
    {Lin(window_shifts(n, d), "<=", window_size) :
        n \in all_nurses, d \in 0..(num_days - max_consecutive_days - 1)}

ConsecutiveConstraints ==
    {Lin(window_shifts(n, d), "<=", max_consecutive_days) :
        n \in all_nurses, d \in 0..(num_days - max_consecutive_days - 1)}

-----------------------------------------------------------------------------
(* Objective terms: obj_terms.append(expr * coef).                         *)

Term(kind, cells, coef) == [kind |-> kind, cells |-> cells, coef |-> coef]

weight_flower == 20

\* (A) flower pattern: is_dn <=> D on d and N on d+1; is_dnd <=> D, N, D
FlowerTerms ==
    IF Get(constraints_config, "avoidFlowerPattern", TRUE) /\ idx_d # -1 /\ idx_n # -1
    THEN {Term("is", {<<n, d, idx_d>>, <<n, d + 1, idx_n>>}, -weight_flower) :
              n \in all_nurses, d \in 0..(num_days - 2)}
         \cup {Term("is", {<<n, d, idx_d>>, <<n, d + 1, idx_n>>, <<n, d + 2, idx_d>>},
                    -(weight_flower * 2)) :
              n \in all_nurses, d \in 0..(num_days - 3)}
    ELSE {}

FairnessTerms == {Term("max_shifts - min_shifts", shifts, -50)}

HolidayTerms == {Term("sum", shifts, -1)}

-----------------------------------------------------------------------------
(* The backend: values of the cube under which every constraint holds.     *)

Count(cells, a) == Cardinality({x \in cells : a[x]})

Max(S) == CHOOSE x \in S : \A y \in S : y <= x
Min(S) == CHOOSE x \in S : \A y \in S : x <= y

\* per-nurse totals under a: work_days_per_nurse
work_days(a) == {Count(total_worked(n), a) : n \in all_nurses}

Holds(c, a) ==
    CASE c.op = "<=" -> Count(c.cells, a) <= c.rhs
      [] c.op = ">=" -> Count(c.cells, a) >= c.rhs
      [] c.op = "==" -> Count(c.cells, a) = c.rhs
      [] c.op = "max_shifts - min_shifts <=" ->
            /\ Max(work_days(a)) <= num_days
            /\ Max(work_days(a)) - Min(work_days(a)) <= c.rhs

\* the cube is searched row by row (day-major); a constraint is decided at the
\* row of its last cell, a constraint over no cell or over the whole cube at the end
NumRows == num_nurses * num_days
RowOf(cell) == cell[2] * num_nurses + cell[1] + 1
RowCells(k) == {<<(k - 1) % num_nurses, (k - 1) \div num_nurses, s>> : s \in all_shifts}
IsLocal(c) == c.op \in {"<=", ">=", "=="} /\ c.cells # {}
LevelOf(c) == Max({RowOf(x) : x \in c.cells})

\* the constraints of cs over cells of the row alone, the values of the row
\* they allow, and the partial assignments extended by such a row
Own(cells, cs) == {c \in cs : c.cells \subseteq cells}

RowValues(cells, own) == {r \in [cells -> BOOLEAN] : \A c \in own : Holds(c, r)}

Join(partials, rows, rest) ==
    {a \in {p @@ r : p \in partials, r \in rows} : \A c \in rest : Holds(c, a)}

Extend(partials, cells, cs) ==
    Join(partials, RowValues(cells, Own(cells, cs)), cs \ Own(cells, cs))

RECURSIVE Search(_, _, _)
Search(k, partials, levelled) ==
    IF k > NumRows \/ partials = {} THEN partials
    ELSE Search(k + 1,
                Extend(partials, RowCells(k), {x[1] : x \in {y \in levelled : y[2] = k}}),
                levelled)

Solutions(m) ==
    Extend(Search(1, {<<>>}, {<<c, LevelOf(c)>> : c \in {x \in m : IsLocal(x)}}),
           {}, {c \in m : ~IsLocal(c)})

\* value of the objective under a
Units(t, a) ==
    CASE t.kind = "is" -> IF \A x \in t.cells : a[x] THEN 1 ELSE 0
      [] t.kind = "max_shifts - min_shifts" -> Max(work_days(a)) - Min(work_days(a))
      [] t.kind = "sum" -> Count(t.cells, a)

RECURSIVE SumOf(_, _)
SumOf(S, a) ==
    IF S = {} THEN 0
    ELSE LET t == CHOOSE x \in S : TRUE
         IN  t.coef * Units(t, a) + SumOf(S \ {t}, a)

\* the indicator terms are summed per coefficient
RECURSIVE Weighted(_, _, _)
Weighted(coefs, ind, a) ==
    IF coefs = {} THEN 0
    ELSE LET c == CHOOSE x \in coefs : TRUE
         IN  c * Cardinality({t \in ind : t.coef = c /\ Units(t, a) = 1})
             + Weighted(coefs \ {c}, ind, a)

Objective(terms, a) ==
    LET ind == {t \in terms : t.kind = "is"}
    IN  SumOf(terms \ ind, a) + Weighted({t.coef : t \in ind}, ind, a)

Top(scored) == {x[1] : x \in {y \in scored : \A z \in scored : z[2] <= y[2]}}

Best(sols, terms) == Top({<<a, Objective(terms, a)>> : a \in sols})

-----------------------------------------------------------------------------
(* Decoding: one record per (nurse, day) whose first true shift exists.    *)

Assigned(v, n, d) == {s \in all_shifts : v[<<n, d, s>>]}

result_schedules(v) ==
    LET cellOf(k) == <<(k - 1) \div num_days, (k - 1) % num_days>>
        worked(k) == Assigned(v, cellOf(k)[1], cellOf(k)[2]) # {}
        recordOf(k) ==
            LET n == cellOf(k)[1]
                d == cellOf(k)[2]
                s == Min(Assigned(v, n, d))
            IN  [date |-> date_str(year, month, d),
                 nurseId |-> nurses[n + 1].id,
                 shiftTypeId |-> rev_shift_map[s].id,
                 shiftCode |-> rev_shift_map[s].code]
        RECURSIVE build(_)
        build(k) == IF k > num_nurses * num_days THEN <<>>
                    ELSE IF worked(k) THEN <<recordOf(k)>> \o build(k + 1)
                    ELSE build(k + 1)
    IN  build(1)

-----------------------------------------------------------------------------
(* Inputs.                                                                 *)

NurseIds == <<"n1", "n2", "n3", "n4">>

Nurse(i, level) == [id |-> NurseIds[i], level |-> level]

ShiftIds == [c \in {"D", "E", "N", "O"} |->
                CASE c = "D" -> "s1" [] c = "E" -> "s2" [] c = "N" -> "s3" [] c = "O" -> "s4"]

Catalog(codes) == [i \in 1..Len(codes) |-> [id |-> ShiftIds[codes[i]], code |-> codes[i]]]

Entry(id, y, m, day, code) ==
    [nurseId |-> id, date |-> date_str(y, m, day - 1), shiftCode |-> code]

\* a nurse's leave and booked shifts for the month: `code' on the days of `on',
\* "O" on the other days, nothing on the days of `free'
Booked(id, y, m, on, free, code) ==
    LET RECURSIVE from(_)
        from(day) ==
            IF day > monthrange(y, m) THEN <<>>
            ELSE IF day \in free THEN from(day + 1)
            ELSE <<Entry(id, y, m, day, IF day \in on THEN code ELSE "O")>> \o from(day + 1)
    IN  from(1)

\* k working days a week, from the first of the month
Weekly(k) == {day \in 1..31 : (day - 1) % 7 < k}

Input(ns, cat, y, m0, ward, cons, pre, forb) ==
    [nurses |-> ns, shiftTypes |-> cat, year |-> y, month |-> m0,
     wardConfig |-> ward, constraints |-> cons, preAssigned |-> pre,
     nurseForbiddenShifts |-> forb]

NoKeys == <<>>

\* February 2024; the roster's first nurse has OpenDays days without booking, the
\* other nurses are booked (a shift or leave) on every day
Year == 2024
Month0 == 1
MaxNurses == 2
OpenDays == 2

OpenFrom(first) == first..(first + OpenDays - 1)
OpenTo(last) == (last - OpenDays + 1)..last

Roster(levels) == [i \in 1..MaxNurses |-> Nurse(i, levels[i])]

Book(i, on, free, code) == Booked(NurseIds[i], Year, Month0 + 1, on, free, code)

RECURSIVE Others(_, _, _)
Others(i, on, code) ==
    IF i > MaxNurses THEN <<>> ELSE Book(i, on, {}, code) \o Others(i + 1, on, code)

Day(id, day, code) == Entry(id, Year, Month0 + 1, day, code)

\* rest rule, pins and forbidden shifts; nobody is senior
InputsRest ==
    {Input(Roster(<<"N1", "N0", "N1", "N0">>), Catalog(cat), Year, Month0, NoKeys, cons,
           Book(1, Weekly(5), OpenTo(29), "D") \o Others(2, Weekly(5), "N") \o extra, forb) :
        cat \in {<<"D", "E", "N", "O">>, <<"O", "N", "D">>},
        cons \in {NoKeys,
                  "minShiftInterval11h" :> FALSE,
                  ("seniorNurseCoverage" :> TRUE) @@ ("minSeniorCount" :> 1)},
        extra \in {<<>>,
                   <<Day("n1", 28, "E")>>,
                   <<Day("n1", 29, "O"), Day("nX", 28, "N")>>,
                   <<Day("n1", 30, "N"), Day("n1", 0, "N")>>},
        forb \in {NoKeys,
                  "n1" :> <<"N">>,
                  ("n1" :> <<"E", "X">>) @@ ("nX" :> <<"D">>)}}

\* six booked days in a row, then the open days
InputsWindow ==
    {Input(Roster(<<"N1", "N0", "N1", "N0">>), Catalog(cat), Year, Month0, NoKeys, NoKeys,
           Book(1, Weekly(4) \cup {5, 6}, OpenFrom(7), "D") \o Others(2, Weekly(5), "D"),
           NoKeys) :
        cat \in {<<"D">>, <<"D", "E", "N", "O">>}}

\* monthly workload and fairness at their limits
InputsWorkload ==
    {Input(Roster(<<"N1", "N0", "N1", "N0">>), Catalog(<<"D", "N">>), Year, Month0, ward,
           NoKeys, Book(1, on, OpenTo(29), "D") \o Others(2, Weekly(k), "D"), NoKeys) :
        on \in {Weekly(4) \ {1, 2}, Weekly(5) \cup {6}, Weekly(6)},
        k \in {4, 5},
        ward \in {NoKeys,
                  ("minWorkingDays" :> 20) @@ ("maxWorkingDays" :> 21),
                  ("minWorkingDays" :> 0) @@ ("maxWorkingDays" :> 28)}}

\* senior cover: the other nurses work the days the first nurse is off
InputsSenior ==
    {Input(Roster(levels), Catalog(cat), Year, Month0, NoKeys, cons,
           Book(1, Weekly(5), OpenTo(29), "D")
           \o Others(2, (1..31) \ Weekly(3), "D"), NoKeys) :
        levels \in {<<"N3", "N2", "N1", "N4">>, <<"N3", "N1", "N0", "N1">>,
                    <<"N1", "N0", "N1", "N0">>},
        cat \in {<<"D">>, <<"D", "E">>, <<"D", "E", "N">>},
        cons \in {NoKeys,
                  "seniorNurseCoverage" :> FALSE,
                  ("seniorNurseCoverage" :> TRUE) @@ ("minSeniorCount" :> 1),
                  "minSeniorCount" :> 0,
                  "minSeniorCount" :> 2}}

\* nothing is demanded: leave is booked on every day but the open days, no
\* headcount minimum, minWorkingDays 0
InputsIdle ==
    {Input(Roster(levels), Catalog(<<"D", "E", "N", "O">>), Year, Month0, ward, cons,
           Book(1, {}, OpenTo(29), "D") \o Others(2, {}, "D"), NoKeys) :
        levels \in {<<"N1", "N0", "N1", "N0">>, <<"N0", "N3", "N1", "N2">>},
        ward \in {"minWorkingDays" :> 0,
                  ("minWorkingDays" :> 0) @@ ("minNursesDay" :> 0)
                  @@ ("minNursesEvening" :> 0) @@ ("minNursesNight" :> 0)},
        cons \in {NoKeys, "minSeniorCount" :> 0}}

\* the nurses after the first: night on the first nurse's day-shift days, day on
\* the 28th and night on the 29th
RECURSIVE Rivals(_)
Rivals(i) ==
    IF i > MaxNurses THEN <<>>
    ELSE Book(i, Weekly(4) \cup {5}, {28}, "N") \o <<Day(NurseIds[i], 28, "D")>>
         \o Rivals(i + 1)

\* day then night then day within reach: the first nurse works day on the 27th
\* and is open from the 28th, where the day shift is full, to the 29th, where
\* the night shift is full
InputsFlower ==
    {Input(Roster(<<"N1", "N0", "N1", "N0">>), Catalog(<<"D", "N">>), Year, Month0,
           ("maxNursesDay" :> MaxNurses - 1) @@ ("maxNursesNight" :> MaxNurses - 1), cons,
           Book(1, Weekly(4) \cup {27}, OpenFrom(28), "D") \o Rivals(2), NoKeys) :
        cons \in {NoKeys, "minShiftInterval11h" :> FALSE, "minShiftInterval11h" :> TRUE}}

\* a pre-assignment whose date is "2024-02" followed by `tail'
Raw(id, tail, code) ==
    [nurseId |-> id, date |-> Str(Year) \o <<"-">> \o Pad2(Month0 + 1) \o tail,
     shiftCode |-> code]

\* pre-assignments whose date has no day, or an unreadable one, or a day outside
\* the month, next to ones that pin an open day
InputsMalformed ==
    {Input(Roster(<<"N1", "N0", "N1", "N0">>), Catalog(<<"D", "E", "N", "O">>), Year, Month0,
           NoKeys, NoKeys,
           Book(1, Weekly(5), OpenTo(29), "D") \o Others(2, Weekly(5), "N") \o extra,
           NoKeys) :
        extra \in {<<Raw("n1", <<>>, "N"), Day("n1", 28, "E")>>,
                   <<Raw("n1", <<"-", "x", "x">>, "N"), Raw("n1", <<"-">>, "E"),
                     Day("n1", 29, "O")>>,
                   <<Day("n1", 30, "N"), Day("n1", 0, "E"),
                     Raw("n1", <<"-", "+", "2", "8", " ">>, "N")>>,
                   <<Raw("n2", <<"2", "8">>, "D"), Raw("n1", <<"-", "2", "9", "-", "x">>, "D")>>}}

Without(d, keys) == [k \in (DOMAIN d) \ keys |-> d[k]]

\* an input object lacking some of its top-level keys: required ones, or the
\* optional ones that have a default
InputsMissing ==
    {Without(d, keys) :
        d \in InputsWindow,
        keys \in (SUBSET RangeOf(RequiredKeys) \ {{}})
                 \cup {{"wardConfig", "constraints", "nurseForbiddenShifts"}}}

Inputs ==
    InputsRest \cup InputsWindow \cup InputsWorkload \cup InputsSenior \cup InputsIdle
    \cup InputsFlower \cup InputsMalformed \cup InputsMissing

\* the inputs given to the handler's solver
InputsApi ==
    InputsWindow \cup InputsIdle \cup InputsFlower \cup InputsMalformed \cup InputsMissing

-----------------------------------------------------------------------------
(* solve_schedule, section by section.                                     *)

Init ==
    /\ \/ variant = "cli" /\ data \in Inputs
       \/ variant = "api" /\ data \in InputsApi
    /\ pc = "parse"
    /\ model = {}
    /\ obj_terms = {}
    /\ status = "NONE"
    /\ values = <<>>
    /\ result = <<>>

\* data['nurses'] ... data['month'] + 1 inside the try of the CLI solver
Parse ==
    /\ pc = "parse"
    /\ variant = "cli"
    /\ IF MissingKey # ""
       THEN /\ result' = [success |-> FALSE, error |-> KeyErrorText(MissingKey)]
            /\ pc' = "done"
       ELSE /\ result' = result
            /\ pc' = "forbidden"
    /\ UNCHANGED <<data, variant, model, obj_terms, status, values>>

\* data.get(...), data.get('month') + 1 and the basic validation of the handler's solver
ParseApi ==
    /\ pc = "parse"
    /\ variant = "api"
    /\ IF "month" \notin DOMAIN data
       THEN /\ result' = [success |-> FALSE, error |-> TypeErrorText]
            /\ pc' = "done"
       ELSE IF Empty("nurses") \/ Empty("shiftTypes") \/ "year" \notin DOMAIN data
       THEN /\ result' = [success |-> FALSE, error |-> MissingDataText]
            /\ pc' = "done"
       ELSE /\ result' = result
            /\ pc' = "forbidden"
    /\ UNCHANGED <<data, variant, model, obj_terms, status, values>>

AddForbidden ==
    /\ pc = "forbidden"
    /\ model' = model \cup ForbiddenConstraints
    /\ pc' = "atmostone"
    /\ UNCHANGED <<data, variant, obj_terms, status, values, result>>

AddAtMostOne ==
    /\ pc = "atmostone"
    /\ model' = model \cup AtMostOneConstraints
    /\ pc' = "preassigned"
    /\ UNCHANGED <<data, variant, obj_terms, status, values, result>>

AddPreAssigned ==
    /\ pc = "preassigned"
    /\ model' = model \cup PreAssignedConstraints
    /\ pc' = "interval"
    /\ UNCHANGED <<data, variant, obj_terms, status, values, result>>

AddInterval ==
    /\ pc = "interval"
    /\ model' = model \cup IntervalConstraints
    /\ pc' = "demand"
    /\ UNCHANGED <<data, variant, obj_terms, status, values, result>>

AddDemand ==
    /\ pc = "demand"
    /\ model' = model \cup DemandConstraints
    /\ pc' = "senior"
    /\ UNCHANGED <<data, variant, obj_terms, status, values, result>>

AddSenior ==
    /\ pc = "senior"
    /\ model' = model \cup SeniorConstraints
    /\ pc' = "workload"
    /\ UNCHANGED <<data, variant, obj_terms, status, values, result>>

AddWorkload ==
    /\ pc = "workload"
    /\ model' = model \cup WorkloadConstraints
    /\ pc' = "objective"
    /\ UNCHANGED <<data, variant, obj_terms, status, values, result>>

AddObjective ==
    /\ pc = "objective"
    /\ model' = model \cup FairnessConstraints
    /\ obj_terms' = FlowerTerms \cup FairnessTerms \cup HolidayTerms
    /\ pc' = "consecutive"
    /\ UNCHANGED <<data, variant, status, values, result>>

AddConsecutive ==
    /\ pc = "consecutive"
    /\ model' = model \cup ConsecutiveConstraints
    /\ pc' = "solve"
    /\ UNCHANGED <<data, variant, obj_terms, status, values, result>>

\* status = solver.Solve(model)
Solve ==
    /\ pc = "solve"
    /\ pc' = "decode"
    /\ \E sols \in {Solutions(model)} :
           \/ sols = {} /\ status' = "INFEASIBLE" /\ values' = <<>>
           \/ \E a \in Best(sols, obj_terms) : status' = "OPTIMAL" /\ values' = a
           \/ \E a \in sols : status' = "FEASIBLE" /\ values' = a
           \/ status' = "UNKNOWN" /\ values' = <<>>
    /\ UNCHANGED <<data, variant, model, obj_terms, result>>

ReturnSchedules ==
    /\ pc = "decode"
    /\ variant = "cli"
    /\ status \in {"OPTIMAL", "FEASIBLE"}
    /\ result' = [success |-> TRUE, status |-> status,
                  schedules |-> result_schedules(values)]
    /\ pc' = "done"
    /\ UNCHANGED <<data, variant, model, obj_terms, status, values>>

ReturnNoSolution ==
    /\ pc = "decode"
    /\ variant = "cli"
    /\ status \notin {"OPTIMAL", "FEASIBLE"}
    /\ result' = [success |-> FALSE, error |-> <<"Status", status>>]
    /\ pc' = "done"
    /\ UNCHANGED <<data, variant, model, obj_terms, status, values>>

\* the handler's solver returns the schedules without the backend's status
ReturnSchedulesApi ==
    /\ pc = "decode"
    /\ variant = "api"
    /\ status \in {"OPTIMAL", "FEASIBLE"}
    /\ result' = [success |-> TRUE, schedules |-> result_schedules(values)]
    /\ pc' = "done"
    /\ UNCHANGED <<data, variant, model, obj_terms, status, values>>

ReturnNoSolutionApi ==
    /\ pc = "decode"
    /\ variant = "api"
    /\ status \notin {"OPTIMAL", "FEASIBLE"}
    /\ result' = [success |-> FALSE, error |-> <<"Infeasible (Status", status>>]
    /\ pc' = "done"
    /\ UNCHANGED <<data, variant, model, obj_terms, status, values>>

Next ==
    \/ Parse
    \/ ParseApi
    \/ AddForbidden
    \/ AddAtMostOne
    \/ AddPreAssigned
    \/ AddInterval
    \/ AddDemand
    \/ AddSenior
    \/ AddWorkload
    \/ AddObjective
    \/ AddConsecutive
    \/ Solve
    \/ ReturnSchedules
    \/ ReturnNoSolution
    \/ ReturnSchedulesApi
    \/ ReturnNoSolutionApi

Spec == Init /\ [][Next]_vars

-----------------------------------------------------------------------------
(* What a caller sees of a finished solve.                                 *)

Succeeded == pc = "done" /\ result.success
Failed == pc = "done" /\ ~result.success

\* the solve went as far as the backend's answer
Answered == pc = "done" /\ status # "NONE"

DayOfMonth(date) == IntVal(Split(date)[3])

\* the (nurseId, day of month, shiftCode) of every record returned
Records == {<<result.schedules[j].nurseId, DayOfMonth(result.schedules[j].date),
              result.schedules[j].shiftCode>> : j \in 1..Len(result.schedules)}

RosterIds == {nurses[i].id : i \in 1..num_nurses}
CatalogCodes == {shift_types[i].code : i \in 1..Len(shift_types)}
Pins == {pre_assigned[i] : i \in 1..Len(pre_assigned)}

\* a pre-assignment of a roster nurse whose date has a day of the month
ValidPin(p) ==
    /\ p.nurseId \in RosterIds
    /\ Len(Split(p.date)) >= 3
    /\ IntOk(Split(p.date)[3])
    /\ DayOfMonth(p.date) \in 1..num_days

WorksOn(K, id, day) == \E code \in WorkingCodes : <<id, day, code>> \in K

\* number of records of nurse id
Worked(K, id) == Cardinality({k \in K : k[1] = id})

-----------------------------------------------------------------------------
(* C1: in every success result, every pre-assignment of a roster nurse on  *)
(* a day of the month is honoured: a working code of the catalog appears   *)
(* as the record of that nurse and day, a non-working code leaves that     *)
(* nurse without a record on that day.                                     *)

PinHonoured(K, p) ==
    IF p.shiftCode \in WorkingCodes
    THEN p.shiftCode \in CatalogCodes =>
            /\ <<p.nurseId, DayOfMonth(p.date), p.shiftCode>> \in K
            /\ \A code \in WorkingCodes \ {p.shiftCode} :
                   <<p.nurseId, DayOfMonth(p.date), code>> \notin K
    ELSE ~WorksOn(K, p.nurseId, DayOfMonth(p.date))

PinsHonouredIn(K) == \A p \in Pins : ValidPin(p) => PinHonoured(K, p)

C1_PinsHonoured == Succeeded => PinsHonouredIn(Records)

\* a success whose input pins an evening shift and a day off on open days
C1_Witness ==
    /\ Succeeded
    /\ \E p \in Pins : ValidPin(p) /\ p.shiftCode = "E" /\ "E" \in CatalogCodes
                       /\ <<p.nurseId, DayOfMonth(p.date), "E">> \in Records
    /\ \E p \in Pins : ValidPin(p) /\ p.shiftCode = "O"
                       /\ ~WorksOn(Records, p.nurseId, DayOfMonth(p.date))

(* C2: in every success result each (nurse, day) has at most one shift     *)
(* variable true, the output has at most one record per (nurseId, date),   *)
(* and a (nurse, day) without a true variable has no record.               *)

NoRecordWhenOff(K) ==
    \A n \in all_nurses, d \in all_days :
        Assigned(values, n, d) = {} => ~WorksOn(K, nurses[n + 1].id, d + 1)

C2_OneShiftPerDay ==
    Succeeded =>
        /\ \A n \in all_nurses, d \in all_days : Cardinality(Assigned(values, n, d)) <= 1
        /\ \A i, j \in 1..Len(result.schedules) :
               /\ result.schedules[i].nurseId = result.schedules[j].nurseId
               /\ result.schedules[i].date = result.schedules[j].date
               => i = j
        /\ NoRecordWhenOff(Records)

\* a success in which a nurse works one open day and is off on another
C2_Witness ==
    /\ Succeeded
    /\ \E n \in all_nurses, d1, d2 \in all_days :
           /\ \A p \in Pins : p.nurseId = nurses[n + 1].id
                              => DayOfMonth(p.date) \notin {d1 + 1, d2 + 1}
           /\ Cardinality(Assigned(values, n, d1)) = 1
           /\ WorksOn(Records, nurses[n + 1].id, d1 + 1)
           /\ Assigned(values, n, d2) = {}
           /\ ~WorksOn(Records, nurses[n + 1].id, d2 + 1)

(* C3: with minShiftInterval11h enabled (the default), no success result   *)
(* shows a nurse on evening then day, night then evening, or night then    *)
(* day on consecutive days of the month.                                   *)

RestKept(K) ==
    \A id \in RosterIds, day \in 1..(num_days - 1) :
        /\ ~(<<id, day, "E">> \in K /\ <<id, day + 1, "D">> \in K)
        /\ ~(<<id, day, "N">> \in K /\ <<id, day + 1, "E">> \in K)
        /\ ~(<<id, day, "N">> \in K /\ <<id, day + 1, "D">> \in K)

C3_RestInterval ==
    Succeeded /\ Get(constraints_config, "minShiftInterval11h", TRUE) => RestKept(Records)

\* a success under the rule in which a nurse chose night after night
C3_Witness ==
    /\ Succeeded
    /\ Get(constraints_config, "minShiftInterval11h", TRUE)
    /\ {"D", "E", "N"} \subseteq CatalogCodes
    /\ \E id \in RosterIds, day \in 1..(num_days - 1) :
           /\ <<id, day, "N">> \in Records
           /\ <<id, day + 1, "N">> \in Records
           /\ \A p \in Pins : p.nurseId = id => DayOfMonth(p.date) \notin {day, day + 1}

(* C4: in every success result every nurse has at most 6 records in every  *)
(* window of 7 consecutive days that lies inside the month.                *)

InWindow(K, id, first) == Cardinality({k \in K : k[1] = id /\ k[2] \in first..(first + 6)})

WindowsKept(K) ==
    \A id \in RosterIds, first \in 1..(num_days - 6) : InWindow(K, id, first) <= 6

C4_SevenDayWindow == Succeeded => WindowsKept(Records)

\* a success in which a nurse worked six days in a row and the open seventh is off
C4_Witness ==
    /\ Succeeded
    /\ \E id \in RosterIds, first \in 1..(num_days - 6) :
           /\ InWindow(Records, id, first) = 6
           /\ \A day \in first..(first + 5) : WorksOn(Records, id, day)
           /\ \A p \in Pins : p.nurseId = id => DayOfMonth(p.date) # first + 6

(* C5: in every success result the largest and the smallest per-nurse      *)
(* number of working days differ by at most 5.                             *)

Spread(K) == Max({Worked(K, id) : id \in RosterIds}) - Min({Worked(K, id) : id \in RosterIds})

C5_FairnessCap == Succeeded => Spread(Records) <= 5

\* a success with two nurses exactly 5 working days apart
C5_Witness == Succeeded /\ num_nurses >= 2 /\ Spread(Records) = 5

(* C6: in every success result no record of a roster nurse carries a code  *)
(* of that nurse's forbidden list; forbidden entries of unknown nurses or  *)
(* of codes that are not working codes of the catalog restrict nothing:    *)
(* the forbidden-shift step constrains only cells of a listed roster nurse *)
(* and a listed code.                                                      *)

ForbiddenKept(K) ==
    \A id \in (DOMAIN nurse_forbidden_shifts) \cap RosterIds :
        \A code \in RangeOf(nurse_forbidden_shifts[id]) :
            \A k \in K : ~(k[1] = id /\ k[3] = code)

OnlyListed(m) ==
    \A c \in m : \A x \in c.cells :
        /\ nurses[x[1] + 1].id \in DOMAIN nurse_forbidden_shifts
        /\ working_shifts[x[3] + 1].code \in RangeOf(nurse_forbidden_shifts[nurses[x[1] + 1].id])

C6_ForbiddenShifts ==
    /\ Succeeded => ForbiddenKept(Records)
    /\ pc = "atmostone" => OnlyListed(model)

\* a success for an input that forbids evening to a roster nurse and lists an
\* unknown nurse and an unknown code, in which day shifts are still worked
C6_Witness ==
    /\ Succeeded
    /\ "n1" \in DOMAIN nurse_forbidden_shifts
    /\ "E" \in RangeOf(nurse_forbidden_shifts["n1"])
    /\ "E" \in CatalogCodes
    /\ \E id \in DOMAIN nurse_forbidden_shifts : id \notin RosterIds
    /\ \E k \in Records : k[1] = "n1" /\ k[3] = "D"
    /\ \E k \in Records : k[1] = "n1" /\ k[3] = "N" /\ k[2] \in OpenTo(29)

(* C7: in every success result every nurse's number of working days lies   *)
(* within [minWorkingDays, maxWorkingDays] of wardConfig, 15 and 23 when   *)
(* the keys are absent.                                                    *)

NoSenior == \A i \in 1..num_nurses : nurses[i].level \notin {"N2", "N3", "N4"}

C8_SeniorShortageFails ==
    /\ Answered
    /\ NoSenior
    /\ Get(constraints_config, "minSeniorCount", 1) = 1
    /\ Get(constraints_config, "seniorNurseCoverage", FALSE)
    => ~result.success

(* C9: with seniorNurseCoverage set to false the senior rule is not        *)
(* enforced: when the constraints other than senior cover are satisfiable  *)
(* and the backend decides the model, the solve succeeds.                  *)

C9_SeniorCoverageSwitch ==
    /\ Answered
    /\ status \in {"OPTIMAL", "FEASIBLE", "INFEASIBLE"}
    /\ ~Get(constraints_config, "seniorNurseCoverage", TRUE)
    /\ ~result.success
    => Solutions(model \ SeniorConstraints) = {}

(* C10: with minSeniorCount = 1 and at least one senior nurse but fewer    *)
(* senior nurses than working shifts in the catalog, the solve fails.      *)

Seniors == {i \in 1..num_nurses : nurses[i].level \in {"N2", "N3", "N4"}}

C10_TooFewSeniorsFails ==
    /\ Answered
    /\ Get(constraints_config, "minSeniorCount", 1) = 1
    /\ Cardinality(Seniors) >= 1
    /\ Cardinality(Seniors) < Cardinality(CatalogCodes \cap WorkingCodes)
    => ~result.success

\* proven infeasible with two senior nurses for D/E/N
C10_Witness ==
    /\ Failed
    /\ status = "INFEASIBLE"
    /\ Get(constraints_config, "minSeniorCount", 1) = 1
    /\ Cardinality(Seniors) = 2
    /\ CatalogCodes \cap WorkingCodes = {"D", "E", "N"}

(* C11: when every headcount minimum is 0, minWorkingDays is 0 and no       *)
(* pre-assignment pins a working shift, the assignment with every nurse    *)
(* off every day satisfies every hard constraint of the model, and the     *)
(* backend does not report the model infeasible.  As stated for any        *)
(* roster:                                                                 *)

AllOff == [x \in shifts |-> FALSE]

ZeroDemand ==
    /\ \A key \in {"minNursesDay", "minNursesEvening", "minNursesNight"} :
           Get(ward_config, key, 0) = 0
    /\ "minWorkingDays" \in DOMAIN ward_config
    /\ ward_config.minWorkingDays = 0

NoWorkingPin == \A p \in Pins : p.shiftCode \notin WorkingCodes

AllOffFeasible ==
    /\ pc = "solve" => \A c \in model : Holds(c, AllOff)
    /\ pc = "decode" => status # "INFEASIBLE"

C11_AllOffAnyRoster == ZeroDemand /\ NoWorkingPin => AllOffFeasible

(* C11, amended: the same for a roster without senior nurse or with        *)
(* minSeniorCount 0, no maximum of wardConfig being negative.              *)

NoSeniorDemand == Seniors = {} \/ Get(constraints_config, "minSeniorCount", 1) <= 0

NoNegativeMaximum == \A key \in DOMAIN ward_config : ward_config[key] >= 0

C11_AllOffFeasible ==
    ZeroDemand /\ NoWorkingPin /\ NoSeniorDemand /\ NoNegativeMaximum => AllOffFeasible

\* a proven-optimal success without any record, for a roster with a senior nurse
C11_Witness ==
    /\ Succeeded
    /\ status = "OPTIMAL"
    /\ ZeroDemand /\ NoWorkingPin /\ NoSeniorDemand /\ NoNegativeMaximum
    /\ Seniors # {}
    /\ values = AllOff
    /\ result.schedules = <<>>

(* C12: when nurses, shiftTypes, year or month is absent from the input,   *)
(* the solve ends at once in a failure whose error identifies the missing  *)
(* required data: no constraint is built and the backend is not invoked.   *)

AbsentKeys == {k \in RangeOf(RequiredKeys) : k \notin DOMAIN data}

MissingInputError(e) == e = MissingDataText \/ \E k \in AbsentKeys : e = KeyErrorText(k)

C12_MissingInputReported ==
    AbsentKeys # {} =>
        /\ pc \in {"parse", "done"}
        /\ model = {} /\ obj_terms = {} /\ status = "NONE"
        /\ pc = "done" => ~result.success /\ MissingInputError(result.error)

(* C13: a pre-assignment whose date has no third '-'-separated component,  *)
(* or one that is not an integer, or a day outside 1..dayCount, is         *)
(* dropped and the build continues: after the pre-assignment step the      *)
(* model is the one built from the remaining entries, each of which is     *)
(* pinned.                                                                 *)

\* what pinning p asks of the model
Pinned(p) ==
    IF p.shiftCode \in WorkingCodes \cap CatalogCodes
    THEN Lin({<<nurse_id_map[p.nurseId], DayOfMonth(p.date) - 1, shift_code_map[p.shiftCode]>>},
             "==", 1)
    ELSE Lin({<<nurse_id_map[p.nurseId], DayOfMonth(p.date) - 1, s>> : s \in all_shifts},
             "==", 0)

Dropped(p) ==
    /\ p.nurseId \in RosterIds
    /\ \/ Len(Split(p.date)) < 3
       \/ ~IntOk(Split(p.date)[3])
       \/ DayOfMonth(p.date) \notin 1..num_days

C13_MalformedPinDropped ==
    pc = "interval" =>
        model = ForbiddenConstraints \cup AtMostOneConstraints
                \cup {Pinned(p) : p \in {q \in Pins : ValidPin(q)}}

\* a success for an input with an unreadable date and a day outside the month,
\* in which a pin on an open day is honoured
C13_Witness ==
    /\ Succeeded
    /\ \E p \in Pins : Dropped(p) /\ (Len(Split(p.date)) < 3 \/ ~IntOk(Split(p.date)[3]))
    /\ \E p \in Pins : ValidPin(p) /\ DayOfMonth(p.date) \in OpenTo(29)
                       /\ PinHonoured(Records, p)

(* C14: for either entry point, when the backend stops at FEASIBLE the     *)
(* assignment is returned as a success whose result carries a status that  *)
(* tells it from a proven-optimal one.                                     *)

C14_FeasibleDistinguished ==
    pc = "done" /\ status = "FEASIBLE" =>
        /\ result.success
        /\ "status" \in DOMAIN result
        /\ result.status # "OPTIMAL"

(* C15: the objective's terms are ranked: a proven-optimal assignment      *)
(* attains, among the assignments satisfying the hard constraints, the     *)
(* least value of 50 x (maxLoad - minLoad) + 20 x (day-then-night pairs)   *)
(* + 40 x (day-night-day triples), the total of working shifts deciding    *)
(* only between assignments equal on that part, and likewise the least     *)
(* maxLoad - minLoad, the flower pattern deciding only between             *)
(* assignments of equal spread.                                            *)

SpreadOf(a) == Max(work_days(a)) - Min(work_days(a))

DayNight(a) ==
    IF {"D", "N"} \subseteq CatalogCodes
    THEN Cardinality({x \in all_nurses \X (0..(num_days - 2)) :
             a[<<x[1], x[2], idx_d>>] /\ a[<<x[1], x[2] + 1, idx_n>>]})
    ELSE 0

DayNightDay(a) ==
    IF {"D", "N"} \subseteq CatalogCodes
    THEN Cardinality({x \in all_nurses \X (0..(num_days - 3)) :
             /\ a[<<x[1], x[2], idx_d>>]
             /\ a[<<x[1], x[2] + 1, idx_n>>]
             /\ a[<<x[1], x[2] + 2, idx_d>>]})
    ELSE 0

FlowerOf(a) == 20 * DayNight(a) + 40 * DayNightDay(a)

FairFlower(a) == 50 * SpreadOf(a) + FlowerOf(a)

Ranked(a, sols) ==
    /\ \A b \in sols : FairFlower(a) <= FairFlower(b)
    /\ \A b \in sols : SpreadOf(a) <= SpreadOf(b)
    /\ \A b \in sols : SpreadOf(a) = SpreadOf(b) => FlowerOf(a) <= FlowerOf(b)

C15_WeightsRanked ==
    /\ pc = "done"
    /\ status = "OPTIMAL"
    /\ Get(constraints_config, "avoidFlowerPattern", TRUE)
    => Ranked(values, Solutions(model))

(* C16: with minShiftInterval11h enabled and both D and N in the catalog,  *)
(* no returned assignment has a nurse on day, night, day on three          *)
(* consecutive days: every three-day flower indicator is false and the     *)
(* terms of weight 40 add nothing to the objective.                        *)

NoDayNightDay(K) ==
    \A id \in RosterIds, day \in 1..(num_days - 2) :
        ~ /\ <<id, day, "D">> \in K
          /\ <<id, day + 1, "N">> \in K
          /\ <<id, day + 2, "D">> \in K

C16_NoDayNightDay ==
    /\ Succeeded
    /\ Get(constraints_config, "minShiftInterval11h", TRUE)
    /\ {"D", "N"} \subseteq CatalogCodes
    => /\ NoDayNightDay(Records)
       /\ DayNightDay(values) = 0
       /\ \A t \in obj_terms : t.coef = -(weight_flower * 2) => Units(t, values) = 0

DayThenNightThenOff(K) ==
    \E id \in RosterIds, day \in 1..(num_days - 2) :
        /\ <<id, day, "D">> \in K
        /\ <<id, day + 1, "N">> \in K
        /\ ~WorksOn(K, id, day + 2)
        /\ \A p \in Pins : p.nurseId = id => DayOfMonth(p.date) \notin {day + 1, day + 2}

\* a success under the rule in which a nurse works day then night and the
\* third day, which nothing books, is off
C16_Witness ==
    /\ Succeeded
    /\ Get(constraints_config, "minShiftInterval11h", TRUE)
    /\ \E t \in obj_terms : t.coef = -(weight_flower * 2)
    /\ DayThenNightThenOff(Records)

====
